---- MODULE Spec2Model ----
(***************************************************************************)
(* Google Contacts -> Notion sync (apps-script/GoogleContactsToNotion.gs,  *)
(* the "Parallel + Retry" script, lines 357-789).                          *)
(*                                                                         *)
(* The source collection is a fixed sequence of contacts, each identified  *)
(* by its resourceName; the sink is the Notion database, a bag of records  *)
(* keyed by their "Google Contact ID".  One run of syncContactsToNotion is *)
(* a sequence of steps: SyncStart / SyncRaise / SyncAbort, then for every  *)
(* batch window LoopDispatch, one Attempt per dispatch of processBatch,    *)
(* and WindowEnd.  startContinuousSync, continueSyncIfNeeded and           *)
(* stopContinuousSync install, fire and remove the catch-up trigger.       *)
(* The environment (Notion, the transport, the clock, the host) is         *)
(* nondeterministic: a sink request is answered with 200, with an error    *)
(* response, or the call throws; a network call is fast or takes longer    *)
(* than the budget; the host may run a second execution beside the first.  *)
(* The checkpoint adapter of the specification has no counterpart in the   *)
(* script and is modelled on its own (CheckpointSpec); ClassifySpec        *)
(* applies processBatch to every list of records and every set of answers; *)
(* ScanSpec follows getExistingNotionContacts page by page; SequentialSpec *)
(* is the run of the basic script (unnamed/part_002), which updates the    *)
(* records it finds in the sink and creates the others.                    *)
(***************************************************************************)
EXTENDS Integers, Sequences, FiniteSets, TLC

\* ---------------------------------------------------------------- bounds
MaxContacts == 6    \* largest source collection
MaxPreexisting == 1 \* the sink holds at the start any of the first so many contacts
MaxRuns == 2        \* operations the operator starts in one behaviour
MaxFaults == 1      \* transient error responses and transport exceptions in one behaviour
MaxScanRecords == 3 \* records of the database in a scan followed page by page
MaxScanPage == 2    \* records Notion puts on one page in such a scan

\* ------------------------------------------------------ program constants
BATCH_SIZE == 5
DELAY_BETWEEN_BATCHES_MS == 600
MAX_EXECUTION_TIME_MS == 5 * 60 * 1000
MAX_RETRIES == 3
RETRY_DELAY_MS == 1000
SEQUENTIAL_DELAY_MS == 200
PAGE_SIZE == 100

Keys == 1 .. MaxContacts

\* the handler functions a project trigger can name: the catch-up callback
\* and the sync itself (the operator's daily trigger)
CatchUp == "continueSyncIfNeeded"
Daily == "syncContactsToNotion"
Handlers == {CatchUp, Daily}

\* the contact whose properties Notion does not accept, when there is one
\* (explored from an empty sink)
Malformed == {3}

\* a record of the sink whose contact is no longer in Google Contacts; the
\* small sources are explored with it and with the operator's daily trigger
Deleted(src) == IF Len(src) <= 2 THEN {MaxContacts} ELSE {}

VARIABLES
    apiKeySet,       \* Script Property NOTION_API_KEY is set
    dbConfigured,    \* NOTION_DATABASE_ID names a database shared with the key
    source,          \* the Google Contacts, as the sequence of resourceNames
    preexisting,     \* the identities the sink held at the start
    rejected,        \* contacts whose page the sink refuses (validation_error)
    checkpoint,      \* the checkpoint store: manifest count, pages, expiry
    codes,           \* response code of each request of the dispatch being
                     \* classified (followed in ClassifySpec only)
    scan,            \* getExistingNotionContacts followed request by request
                     \* (in ScanSpec only): the pages Notion serves, the
                     \* loop's hasMore and startCursor, the pages asked
    basic,           \* the basic script's syncContactsToNotion (in
                     \* SequentialSpec only): its counters and its requests
    sink,            \* Notion database: identity key -> number of records
    pc,              \* position of the run: idle, loop, attempt, windowEnd
    existing,        \* existingContacts of the run (its key set)
    contactsToSync,  \* pending list of the run
    i,               \* loop index of the dispatch loop
    created,         \* created counter of syncContactsToNotion
    failed,          \* failed counter of syncContactsToNotion
    batchNum,        \* batch counter of syncContactsToNotion
    batch,           \* current batch window
    contactsToRetry, \* processBatchWithRetry: records still to submit
    attempt,         \* processBatchWithRetry: attempt number
    bcreated,        \* processBatchWithRetry: created
    elapsed,         \* Date.now() - startTime, saturated above the budget
    requests,        \* create requests handed to the transport, per key, this run
    createdKeys,     \* keys whose create request was answered 200 in this run
    successes,       \* create requests answered 200 in this run
    threwKeys,       \* keys one of whose submissions threw in this run
    groups,          \* batch windows dispatched in this run, in order
    checkLog,        \* elapsed time seen by each budget check of this run
    queries,         \* sink query requests issued by the current operation
    fetched,         \* the current operation has fetched the source
    report,          \* what the last finished operation logged and how it ended
                     \* (while a run is in progress: which one and how, no counts)
    runs,            \* operations started by the operator (status checks,
                     \* which change nothing, are not counted)
    faults,          \* error responses and exceptions so far
    triggers,        \* project triggers: handler function -> number installed
    caller,          \* who invoked the current or last operation
    otherPending     \* contactsToSync left to a second execution of
                     \* syncContactsToNotion in progress (empty: there is none)

config == <<apiKeySet, dbConfigured, source, preexisting, rejected, checkpoint,
            codes, scan, basic>>
locals == <<existing, contactsToSync, i, created, failed, batchNum, batch,
            contactsToRetry, attempt, bcreated>>
obs == <<requests, createdKeys, successes, threwKeys, groups, checkLog, queries, fetched>>
sched == <<triggers, caller>>
vars == <<config, sink, pc, locals, elapsed, obs, report, runs, faults, sched,
          otherPending>>

\* ---------------------------------------------------------------- helpers
Range(s) == {s[j] : j \in 1 .. Len(s)}

Min(a, b) == IF a < b THEN a ELSE b

CeilDiv(a, b) == (a + b - 1) \div b

\* JavaScript Array.prototype.slice(from, to) with 0-based from, exclusive to
Slice(s, from, to) == SubSeq(s, from + 1, Min(to, Len(s)))

\* Date.now() - startTime after a further d milliseconds.  Only the
\* comparison with MAX_EXECUTION_TIME_MS reads it, so it saturates there.
Tick(e, d) == Min(e + d, MAX_EXECUTION_TIME_MS + 1)

\* duration of one network call: negligible, or longer than the budget
CallDurations == {0, MAX_EXECUTION_TIME_MS + 1}

\* ------------------------------------------------ the checkpoint adapter
\* keys in one page of the checkpoint
CHECKPOINT_PAGE_SIZE == 2

NoCheckpoint == [count |-> 0, pages |-> <<>>, expired |-> FALSE]

RECURSIVE SortedSeq(_)
SortedSeq(S) ==
    IF S = {} THEN <<>>
    ELSE LET m == CHOOSE x \in S : \A y \in S : x <= y
         IN  <<m>> \o SortedSeq(S \ {m})

\* the key set split into pages of fixed size, and the manifest count
Serialize(S) ==
    LET seq == SortedSeq(S)
    IN  [count   |-> Len(seq),
         pages   |-> [p \in 1 .. CeilDiv(Len(seq), CHECKPOINT_PAGE_SIZE) |->
                        Slice(seq, (p - 1) * CHECKPOINT_PAGE_SIZE,
                              p * CHECKPOINT_PAGE_SIZE)],
         expired |-> FALSE]

\* variant: the last, partly filled page is not read
PagesToReadWhole(count) == count \div CHECKPOINT_PAGE_SIZE

\* load reads ceil(count / pageSize) pages
PagesToRead(count) == CeilDiv(count, CHECKPOINT_PAGE_SIZE)

\* load(): the cached set if the checkpoint has not expired and its count
\* is not zero, else the empty set
load(store) ==
    IF store.expired \/ store.count = 0 THEN {}
    ELSE UNION {Range(store.pages[p]) : p \in 1 .. PagesToRead(store.count)}

\* append(keys): the keys are added to the cached set, which is serialized
\* again; nothing happens for no keys
append(store, keys) ==
    IF keys = {} THEN store ELSE Serialize(load(store) \cup keys)

NoScan == [taken |-> FALSE, pages |-> <<>>, errorAt |-> 0, hasMore |-> TRUE,
           startCursor |-> 0, asked |-> <<>>]

NoBasic == [taken |-> FALSE, idx |-> 0, created |-> 0, updated |-> 0,
          skipped |-> 0, log |-> <<>>]

NoReport == [op |-> "none", outcome |-> "none", created |-> 0, failed |-> 0,
             remaining |-> 0, total |-> 0, synced |-> 0, removed |-> 0]

\* ------------------------------------------------------------- the sink
RECURSIVE Copies(_, _)
Copies(k, n) == IF n = 0 THEN <<>> ELSE <<k>> \o Copies(k, n - 1)

RECURSIVE RecordsFrom(_, _)
RecordsFrom(s, k) ==
    IF k > MaxContacts THEN <<>> ELSE Copies(k, s[k]) \o RecordsFrom(s, k + 1)

\* the records of the database in the order the query enumerates them,
\* each given by its "Google Contact ID"
SinkRecords(s) == RecordsFrom(s, 1)

NumPages(s) == IF Len(SinkRecords(s)) = 0 THEN 1
               ELSE CeilDiv(Len(SinkRecords(s)), PAGE_SIZE)

\* getExistingNotionContacts: the loop over the pages.  page is the number
\* of the request, errorAt the request answered with an error response
\* (0: none).  An error response has neither results nor has_more, so the
\* loop ends with the contacts collected so far.
RECURSIVE QueryPages(_, _, _, _)
QueryPages(recs, page, errorAt, contacts) ==
    IF page = errorAt THEN contacts
    ELSE LET results == Slice(recs, (page - 1) * PAGE_SIZE, page * PAGE_SIZE)
             hasMore == Len(recs) > page * PAGE_SIZE
             got     == contacts \cup Range(results)
         IN  IF hasMore THEN QueryPages(recs, page + 1, errorAt, got) ELSE got

getExistingNotionContacts(s, errorAt) == QueryPages(SinkRecords(s), 1, errorAt, {})

\* variant: no request is issued
QueryRequestsNone(s, errorAt) == 0

\* number of query requests the loop issues
QueryRequests(s, errorAt) == IF errorAt = 0 THEN NumPages(s) ELSE errorAt

\* The outcomes the sink can give to a full scan: with a missing key or an
\* unusable database id every request is answered with an error response;
\* otherwise any one request may be (a fault).
SinkUsable == apiKeySet /\ dbConfigured

QueryOutcomesAt(f) ==
    IF ~SinkUsable THEN {1}
    ELSE {0} \cup (IF f < MaxFaults THEN 1 .. NumPages(sink) ELSE {})

QueryOutcomes == QueryOutcomesAt(faults)

QueryFault(errorAt) == IF SinkUsable /\ errorAt # 0 THEN 1 ELSE 0

\* ------------------------------------------------- syncContactsToNotion
\* variant: the credential check is left out
KeyMissingUnchecked(keySet) == FALSE

\* line 381: if (!notionApiKey)
KeyMissing(keySet) == ~keySet

\* variant: the filter is left out
PendingOfUnfiltered(src, ex) == src

\* line 399: googleContacts.filter(c => !existingContacts[c.resourceName])
PendingOf(src, ex) == SelectSeq(src, LAMBDA c : c \notin ex)

\* variant: the budget is never seen as exceeded
BudgetNeverExceeded(e) == FALSE

\* line 414: Date.now() - startTime > MAX_EXECUTION_TIME_MS
BudgetExceeded(e) == e > MAX_EXECUTION_TIME_MS

\* variant: the window takes one record too many
WindowOfInclusive(pending, idx) == Slice(pending, idx, idx + BATCH_SIZE + 1)

\* line 420: contactsToSync.slice(i, i + BATCH_SIZE)
WindowOf(pending, idx) == Slice(pending, idx, idx + BATCH_SIZE)

Init ==
    /\ apiKeySet \in BOOLEAN
    /\ dbConfigured \in BOOLEAN
    /\ \E n \in 1 .. MaxContacts : source = [j \in 1 .. n |-> j]
    /\ preexisting \in SUBSET ((Range(source) \cap (1 .. MaxPreexisting))
                               \cup Deleted(source))
    /\ rejected \in SUBSET (IF preexisting = {}
                             THEN Range(source) \cap Malformed ELSE {})
    /\ checkpoint = NoCheckpoint
    /\ codes = <<>>
    /\ scan = NoScan
    /\ basic = NoBasic
    /\ sink = [k \in Keys |-> IF k \in preexisting THEN 1 ELSE 0]
    /\ pc = "idle"
    /\ existing = {}
    /\ contactsToSync = <<>>
    /\ i = 0
    /\ created = 0
    /\ failed = 0
    /\ batchNum = 0
    /\ batch = <<>>
    /\ contactsToRetry = <<>>
    /\ attempt = 0
    /\ bcreated = 0
    /\ elapsed = 0
    /\ requests = [k \in Keys |-> 0]
    /\ createdKeys = {}
    /\ successes = 0
    /\ threwKeys = {}
    /\ groups = <<>>
    /\ checkLog = <<>>
    /\ queries = 0
    /\ fetched = FALSE
    /\ report = NoReport
    /\ runs = 0
    /\ faults = 0
    /\ triggers \in {t \in [Handlers -> 0 .. 1] :
                       t[CatchUp] = 0 /\ (t[Daily] = 1 => Len(source) <= 2)}
    /\ caller = "none"
    /\ otherPending = <<>>

\* what every operation resets when it starts
FreshObs(q, f) ==
    /\ requests' = [k \in Keys |-> 0]
    /\ createdKeys' = {}
    /\ successes' = 0
    /\ threwKeys' = {}
    /\ groups' = <<>>
    /\ checkLog' = <<>>
    /\ queries' = q
    /\ fetched' = f

FreshLocals(ex, pending) ==
    /\ existing' = ex
    /\ contactsToSync' = pending
    /\ i' = 0
    /\ created' = 0
    /\ failed' = 0
    /\ batchNum' = 0
    /\ batch' = <<>>
    /\ contactsToRetry' = <<>>
    /\ attempt' = 0
    /\ bcreated' = 0

\* variant: no function catches
ThrowEndsUncaught(op) == "raised"

\* where an exception ends: startContinuousSync (lines 597-602) and
\* continueSyncIfNeeded (lines 606-624) catch and log it, the other
\* functions let it reach the host
ThrowEnds(op) == IF op \in {"start", "continue"} THEN "caught" ELSE "raised"

\* an operation ends at once: nothing resolved, nothing dispatched
EndsAtOnce(op, outcome, q, f) ==
    /\ FreshObs(q, f)
    /\ FreshLocals({}, <<>>)
    /\ elapsed' = 0
    /\ pc' = "idle"
    /\ report' = [NoReport EXCEPT !.op = op, !.outcome = outcome]

\* lines 389-409 of syncContactsToNotion, the key being present: query the
\* sink, fetch the source, filter.  q0 and f0 are the query requests and the
\* faults of the caller before the call (continueSyncIfNeeded).
EnterSync(q0, f0) ==
    \E errorAt \in QueryOutcomesAt(faults + f0), d \in CallDurations :
       LET ex      == getExistingNotionContacts(sink, errorAt)
           pending == PendingOf(source, ex)
       IN  /\ faults' = faults + f0 + QueryFault(errorAt)
           /\ elapsed' = Tick(0, d)
           /\ FreshObs(q0 + QueryRequests(sink, errorAt), TRUE)
           /\ FreshLocals(ex, pending)
           /\ IF Len(pending) = 0
              THEN /\ pc' = "idle"
                   /\ report' = [NoReport EXCEPT !.op = "sync",
                                   !.outcome = "allSynced",
                                   !.total = Len(source),
                                   !.synced = Cardinality(ex)]
              ELSE /\ pc' = "loop"
                   /\ report' = [NoReport EXCEPT !.op = report.op,
                                   !.outcome = report.outcome]

\* lines 389-395 (561-562, 608-609): UrlFetchApp.fetch of the first query
\* request or People.People.Connections.list throws.  The exception leaves
\* the function whose operation is op.
EnterThrows(op, q0, f0) ==
    /\ faults + f0 < MaxFaults
    /\ faults' = faults + f0 + 1
    /\ \E at \in {"query", "fetch"} :
         EndsAtOnce(op, ThrowEnds(op),
                    q0 + (IF at = "query" THEN 1
                          ELSE QueryRequests(sink, IF SinkUsable THEN 0 ELSE 1)),
                    FALSE)

\* lines 377-383: the credential is missing, the run throws
SyncRaise ==
    /\ pc = "idle"
    /\ runs < MaxRuns
    /\ KeyMissing(apiKeySet)
    /\ runs' = runs + 1
    /\ caller' = "manual"
    /\ EndsAtOnce("sync", ThrowEnds("sync"), 0, FALSE)
    /\ UNCHANGED <<config, otherPending, sink, faults, triggers>>

\* lines 377-409: query the sink, fetch the source, filter
SyncStart ==
    /\ pc = "idle"
    /\ runs < MaxRuns
    /\ ~KeyMissing(apiKeySet)
    /\ runs' = runs + 1
    /\ caller' = "manual"
    /\ EnterSync(0, 0)
    /\ UNCHANGED <<config, otherPending, sink, triggers>>

\* lines 389-395: the query or the fetch throws and the run with it
SyncAbort ==
    /\ pc = "idle"
    /\ runs < MaxRuns
    /\ ~KeyMissing(apiKeySet)
    /\ runs' = runs + 1
    /\ caller' = "manual"
    /\ EnterThrows("sync", 0, 0)
    /\ UNCHANGED <<config, otherPending, sink, triggers>>

\* lines 412, 440-445: the loop is over, the run logs its summary
LoopExit ==
    /\ pc = "loop"
    /\ ~(i < Len(contactsToSync))
    /\ pc' = "idle"
    /\ report' = [NoReport EXCEPT !.op = "sync", !.outcome = "complete",
                    !.created = created, !.failed = failed,
                    !.total = Len(source),
                    !.synced = Cardinality(existing) + created]
    /\ UNCHANGED <<config, otherPending, sched, sink, locals, elapsed, obs, runs, faults>>

\* lines 413-417: the budget check stops the run (logProgress, return)
LoopTimeout ==
    /\ pc = "loop"
    /\ i < Len(contactsToSync)
    /\ BudgetExceeded(elapsed)
    /\ checkLog' = Append(checkLog, elapsed)
    /\ pc' = "idle"
    /\ report' = [NoReport EXCEPT !.op = "sync", !.outcome = "timeout",
                    !.created = created, !.failed = failed,
                    !.remaining = Len(contactsToSync) - i,
                    !.total = Len(source),
                    !.synced = Cardinality(existing) + created]
    /\ UNCHANGED <<config, otherPending, sched, sink, locals, elapsed, requests, createdKeys,
                   successes, threwKeys, groups, queries, fetched, runs,
                   faults>>

\* lines 413-423: the budget check passes, the next window is taken and
\* handed to processBatchWithRetry (lines 452-454)
LoopDispatch ==
    /\ pc = "loop"
    /\ i < Len(contactsToSync)
    /\ ~BudgetExceeded(elapsed)
    /\ checkLog' = Append(checkLog, elapsed)
    /\ batchNum' = batchNum + 1
    /\ batch' = WindowOf(contactsToSync, i)
    /\ groups' = Append(groups, batch')
    /\ contactsToRetry' = batch'
    /\ attempt' = 1
    /\ bcreated' = 0
    /\ pc' = "attempt"
    /\ UNCHANGED <<config, otherPending, sched, sink, existing, contactsToSync, i, created, failed,
                   elapsed, requests, createdKeys, successes, threwKeys,
                   queries, fetched, report, runs, faults>>

\* -------------------------------------------------------- processBatch
Statuses == {200, 429, 500}

\* variant: only the rate-limit status counts as a failure
IsCreatedUnless429(code) == code # 429

\* line 503 / line 530: a response counts as created iff its code is 200
IsCreated(code) == code = 200

\* variant: the property is filled from another field of the contact
buildNotionPropertiesUnkeyed(contact) == [GoogleContactID |-> 1]

\* lines 706-717: the properties of the page to create; "Google Contact ID"
\* is the contact's resourceName (a contact is given by its resourceName)
buildNotionProperties(contact) == [GoogleContactID |-> contact]

\* lines 484-497: the requests of one dispatch, one per record, each with
\* the properties built from that record
RequestsFor(retry) == [k \in Range(retry) |-> buildNotionProperties(k)]

\* the records of one dispatch the code counts as created (created++)
CreatedIn(retry, resp, thrown) ==
    {k \in Range(retry) : k \notin thrown /\ IsCreated(resp[k])}

\* the records of one dispatch the sink did create: it answered 200
Landed(retry, resp, thrown) ==
    {k \in Range(retry) : k \notin thrown /\ resp[k] = 200}

\* variant: after a failure the whole list is submitted again
FailedContactsAll(retry, resp, thrown) ==
    IF Range(retry) \subseteq CreatedIn(retry, resp, thrown) THEN <<>> ELSE retry

\* failedContacts of one dispatch, in batch order (lines 506, 533, 538)
FailedContacts(retry, resp, thrown) ==
    SelectSeq(retry, LAMBDA k : k \notin CreatedIn(retry, resp, thrown))

\* the answers the sink can give to the create requests of one dispatch:
\* 404 to each when the key or the database id is unusable, else 400 to a
\* contact it does not accept and any status to each other one, at most
\* room of them (transient) error responses
Responses(retry, room) ==
    IF ~SinkUsable THEN {[k \in Range(retry) |-> 404]}
    ELSE UNION {{[k \in Range(retry) |->
                    IF k \in rejected THEN 400
                    ELSE IF k \in bad THEN c[k] ELSE 200] :
                   c \in [bad -> Statuses \ {200}]} :
                bad \in {B \in SUBSET (Range(retry) \ rejected) :
                            Cardinality(B) <= room}}

\* lines 514-540: the records whose own fetch throws in the sequential
\* fallback (catch e2).  The outage that made fetchAll throw may last into
\* the single fetches: the first m of them throw as well.
ThrownSets(retry, room) ==
    {Range(SubSeq(retry, 1, m)) : m \in 0 .. Min(room, Len(retry))}

\* variant: the loop of the fallback leaves the first record out
FallbackOrderRest(retry) == Tail(retry)

\* line 514: for (const contact of batch), the records the fallback submits
\* one at a time, in the order of the list
FallbackOrder(retry) == retry

\* variant: creating a page replaces what the database held
CreatePagesReplacing(s, ids) ==
    [id \in Keys |-> Cardinality({k \in DOMAIN ids : ids[k] = id})]

\* POST /v1/pages (lines 485-495, 516-527): every request answered 200
\* adds one page, under the "Google Contact ID" of its properties; ids is
\* that key for each record created
CreatePages(s, ids) ==
    [id \in Keys |-> s[id] + Cardinality({k \in DOMAIN ids : ids[k] = id})]

\* faults of one dispatch: an outage (fetchAll throws, and with it any of
\* the single fetches), and the error responses a usable database gives to a
\* contact it accepts
FaultsIn(retry, resp, parallelThrew, thrown) ==
    (IF parallelThrew THEN 1 ELSE 0)
    + (IF SinkUsable
       THEN Cardinality({k \in Range(retry) \ rejected :
                           k \notin thrown /\ resp[k] # 200})
       ELSE 0)

\* variant: a failed record is not submitted again
RetryContinuesNoRetry(a, retry) == a <= 1 /\ Len(retry) > 0

\* variant: one attempt too many
RetryContinuesOnceMore(a, retry) == a <= MAX_RETRIES + 1 /\ Len(retry) > 0

\* line 456: the loop condition of processBatchWithRetry
RetryContinues(a, retry) == a <= MAX_RETRIES /\ Len(retry) > 0

\* variant: the same pause before every retry
RetryPauseFlat(a, retry) ==
    IF Len(retry) > 0 /\ a < MAX_RETRIES THEN RETRY_DELAY_MS ELSE 0

\* lines 464-467: the pause before the next attempt
RetryPause(a, retry) ==
    IF Len(retry) > 0 /\ a < MAX_RETRIES THEN RETRY_DELAY_MS * a ELSE 0

\* lines 456-468 with processBatch (478-544): one dispatch of the records
\* still to submit.  parallelThrew: fetchAll threw, the exception is caught
\* (line 510) and the records go one at a time; thrown: the records whose
\* own fetch threw (fallback only).
Attempt ==
    /\ pc = "attempt"
    /\ RetryContinues(attempt, contactsToRetry)
    /\ \E parallelThrew \in (IF faults < MaxFaults THEN BOOLEAN ELSE {FALSE}),
          d \in CallDurations :
       \E resp \in Responses(contactsToRetry,
                             MaxFaults - faults - (IF parallelThrew THEN 1 ELSE 0)) :
       \E thrown \in (IF parallelThrew
                      THEN ThrownSets(contactsToRetry, MaxFaults)
                      ELSE {{}}) :
         LET ok     == CreatedIn(contactsToRetry, resp, thrown)
             landed == Landed(contactsToRetry, resp, thrown)
             still  == FailedContacts(contactsToRetry, resp, thrown)
             nf     == FaultsIn(contactsToRetry, resp, parallelThrew, thrown)
             reqs   == RequestsFor(contactsToRetry)
             alone  == IF parallelThrew THEN FallbackOrder(contactsToRetry)
                       ELSE <<>>
             paused == IF parallelThrew
                       THEN SEQUENTIAL_DELAY_MS
                              * (Len(contactsToRetry) - Cardinality(thrown))
                       ELSE 0
         IN  /\ faults + nf <= MaxFaults
             /\ faults' = faults + nf
             /\ sink' = CreatePages(sink, [k \in landed |->
                                              reqs[k].GoogleContactID])
             /\ requests' = [k \in Keys |->
                               requests[k]
                               + (IF k \in Range(contactsToRetry) THEN 1 ELSE 0)
                               + (IF k \in Range(alone) THEN 1 ELSE 0)]
             /\ createdKeys' = createdKeys \cup landed
             /\ successes' = successes + Cardinality(landed)
             /\ threwKeys' = IF parallelThrew
                             THEN threwKeys \cup Range(contactsToRetry)
                             ELSE threwKeys
             /\ bcreated' = bcreated + Cardinality(ok)
             /\ contactsToRetry' = still
             /\ elapsed' = Tick(Tick(Tick(elapsed, d), paused),
                                RetryPause(attempt, still))
             /\ attempt' = attempt + 1
             /\ pc' = IF RetryContinues(attempt + 1, still)
                      THEN "attempt" ELSE "windowEnd"
    /\ UNCHANGED <<config, otherPending, sched, existing, contactsToSync, i, created, failed,
                   batchNum, batch, groups, checkLog, queries, fetched,
                   report, runs>>

\* lines 470-472, 424-437: processBatchWithRetry returns, the counts are
\* accumulated, the loop pauses and moves to the next window
WindowEnd ==
    /\ pc = "windowEnd"
    /\ created' = created + bcreated
    /\ failed' = failed + Len(contactsToRetry)
    /\ elapsed' = IF i + BATCH_SIZE < Len(contactsToSync)
                  THEN Tick(elapsed, DELAY_BETWEEN_BATCHES_MS) ELSE elapsed
    /\ i' = i + BATCH_SIZE
    /\ pc' = "loop"
    /\ UNCHANGED <<config, otherPending, sched, sink, existing, contactsToSync, batchNum, batch,
                   contactsToRetry, attempt, bcreated, obs, report, runs,
                   faults>>

\* ------------------------------------------------------ checkSyncStatus
\* lines 558-581: a live sink query and a source fetch, then the report.
\* The key is passed on unchecked: without it every request is refused.
checkSyncStatus ==
    /\ pc = "idle"
    /\ runs' = runs
    /\ caller' = "manual"
    /\ \E errorAt \in QueryOutcomes :
         LET ex     == getExistingNotionContacts(sink, errorAt)
             synced == Cardinality(ex)
             total  == Len(source)
         IN  /\ faults' = faults + QueryFault(errorAt)
             /\ FreshObs(QueryRequests(sink, errorAt), TRUE)
             /\ FreshLocals(ex, <<>>)
             /\ report' = [NoReport EXCEPT !.op = "status",
                             !.outcome = "reported",
                             !.total = total, !.synced = synced,
                             !.remaining = total - synced]
    /\ elapsed' = 0
    /\ UNCHANGED <<config, otherPending, sink, pc, triggers>>

\* lines 561-562: the query or the fetch throws
StatusAbort ==
    /\ pc = "idle"
    /\ runs' = runs
    /\ caller' = "manual"
    /\ EnterThrows("status", 0, 0)
    /\ UNCHANGED <<config, otherPending, sink, triggers>>

\* ------------------------------------------------------------ scheduling
\* variant: every trigger of the project is deleted
RemainingTriggersNone(t) == [h \in Handlers |-> 0]

\* variant: nothing is deleted
RemainingTriggersAll(t) == t

\* lines 627-639: every trigger whose handler is continueSyncIfNeeded is
\* deleted, the others are left
RemainingTriggers(t) == [h \in Handlers |-> IF h = CatchUp THEN 0 ELSE t[h]]

\* lines 589-592: ScriptApp.newTrigger('continueSyncIfNeeded')...create()
WithNewTrigger(t) == [t EXCEPT ![CatchUp] = @ + 1]

\* variant: one record left counts as done
BacklogAtMostOne(remaining) == remaining <= 1

\* variant: the backlog is never seen as zero
BacklogNeverZero(remaining) == FALSE

\* line 613: if (remaining === 0)
BacklogZero(remaining) == remaining = 0

\* lines 627-639, called by the operator; the log line tells how many
\* triggers were removed
stopContinuousSync ==
    /\ pc = "idle"
    /\ runs < MaxRuns
    /\ runs' = runs + 1
    /\ caller' = "manual"
    /\ triggers' = RemainingTriggers(triggers)
    /\ FreshObs(0, FALSE)
    /\ FreshLocals({}, <<>>)
    /\ elapsed' = 0
    /\ pc' = "idle"
    /\ report' = [NoReport EXCEPT !.op = "stop", !.outcome = "stopped",
                    !.removed = triggers[CatchUp] - triggers'[CatchUp]]
    /\ UNCHANGED <<config, otherPending, sink, faults>>

\* lines 586-603: old triggers removed, the trigger installed, then the
\* first run inside try/catch
startContinuousSync ==
    /\ pc = "idle"
    /\ runs < MaxRuns
    /\ runs' = runs + 1
    /\ caller' = "start"
    /\ triggers' = WithNewTrigger(RemainingTriggers(triggers))
    /\ \/ /\ KeyMissing(apiKeySet)
          /\ EndsAtOnce("start", ThrowEnds("start"), 0, FALSE)
          /\ faults' = faults
       \/ /\ ~KeyMissing(apiKeySet)
          /\ EnterSync(0, 0)
       \/ /\ ~KeyMissing(apiKeySet)
          /\ EnterThrows("start", 0, 0)
    /\ UNCHANGED <<config, otherPending, sink>>

\* lines 605-625, fired by the host for an installed trigger: a live query
\* and a live fetch, the trigger removed when nothing remains, else
\* syncContactsToNotion (which queries and fetches again); the whole body
\* inside try/catch
continueSyncIfNeeded ==
    /\ pc = "idle"
    /\ triggers[CatchUp] > 0
    /\ caller' = "continue"
    /\ \/ /\ EnterThrows("continue", 0, 0)
          /\ triggers' = triggers
       \/ \E first \in QueryOutcomes :
            LET ex1       == getExistingNotionContacts(sink, first)
                remaining == Len(PendingOf(source, ex1))
                q1        == QueryRequests(sink, first)
                f1        == QueryFault(first)
            IN  IF BacklogZero(remaining)
                THEN /\ triggers' = RemainingTriggers(triggers)
                     /\ faults' = faults + f1
                     /\ FreshObs(q1, TRUE)
                     /\ FreshLocals(ex1, <<>>)
                     /\ elapsed' = 0
                     /\ pc' = "idle"
                     /\ report' = [NoReport EXCEPT !.op = "continue",
                                     !.outcome = "stopped",
                                     !.removed = triggers[CatchUp]
                                                 - triggers'[CatchUp],
                                     !.total = Len(source),
                                     !.synced = Cardinality(ex1)]
                ELSE /\ triggers' = triggers
                     /\ \/ /\ KeyMissing(apiKeySet)
                           /\ EndsAtOnce("continue", ThrowEnds("continue"), q1, TRUE)
                           /\ faults' = faults + f1
                        \/ /\ ~KeyMissing(apiKeySet)
                           /\ EnterSync(q1, f1)
                        \/ /\ ~KeyMissing(apiKeySet)
                           /\ EnterThrows("continue", q1, f1)
    /\ UNCHANGED <<config, otherPending, sink, runs>>

\* ---------------------------------------------------- a second execution
\* The script takes no lock (no LockService, no flag in the properties): an
\* execution the operator starts while another one is in progress runs
\* beside it.  The second execution is followed window by window, with a
\* sink that answers at once and without transient faults.

\* lines 377-409 in the second execution, started when the first has
\* resolved its pending list and not yet dispatched a window
OverlapStart ==
    /\ pc = "loop" /\ i = 0
    /\ otherPending = <<>>
    /\ runs < MaxRuns
    /\ ~KeyMissing(apiKeySet)
    /\ runs' = runs + 1
    /\ otherPending' = PendingOf(source, getExistingNotionContacts(
                                            sink, IF SinkUsable THEN 0 ELSE 1))
    /\ UNCHANGED <<config, sink, pc, locals, elapsed, obs, report, faults, sched>>

\* lines 412-438 in the second execution: its next window with the retries
\* of processBatchWithRetry; what the sink accepts is created
OverlapDispatch ==
    /\ otherPending # <<>>
    /\ \E resp \in Responses(WindowOf(otherPending, 0), 0) :
         LET w      == WindowOf(otherPending, 0)
             landed == Landed(w, resp, {})
             reqs   == RequestsFor(w)
         IN  sink' = CreatePages(sink, [k \in landed |->
                                           reqs[k].GoogleContactID])
    /\ otherPending' = Slice(otherPending, BATCH_SIZE, Len(otherPending))
    /\ UNCHANGED <<config, pc, locals, elapsed, obs, report, runs, faults, sched>>

Next ==
    \/ SyncRaise
    \/ SyncStart
    \/ LoopExit
    \/ LoopTimeout
    \/ LoopDispatch
    \/ Attempt
    \/ WindowEnd
    \/ checkSyncStatus
    \/ SyncAbort
    \/ StatusAbort
    \/ stopContinuousSync
    \/ startContinuousSync
    \/ continueSyncIfNeeded
    \/ OverlapStart
    \/ OverlapDispatch

Spec == Init /\ [][Next]_vars

\* ------------------------------------------------------- automatic mode
\* lines 586-625 left to themselves: the operator calls startContinuousSync
\* and nothing else, the host fires the trigger every ten minutes.
RunStep == LoopExit \/ LoopTimeout \/ LoopDispatch \/ Attempt \/ WindowEnd

\* a scheduled invocation whose sink queries and source fetches return
\* within the budget
TimelyFire == continueSyncIfNeeded /\ ~BudgetExceeded(elapsed')

\* the operator starts automatic mode, once
StartAuto == runs = 0 /\ startContinuousSync

NextAuto == StartAuto \/ continueSyncIfNeeded \/ RunStep

\* A started run goes on to its end; the trigger keeps firing, and calls
\* slower than the budget do not go on for ever.
AutoSpec ==
    /\ Init
    /\ [][NextAuto]_vars
    /\ WF_vars(RunStep)
    /\ SF_vars(TimelyFire)

\* ------------------------------------------------- the checkpoint alone
\* The adapter on its own: keys are appended, the checkpoint expires or is
\* cleared, and a fresh adapter loads what the store holds.  createdKeys is
\* the set a valid checkpoint stands for.
CheckpointFrame ==
    UNCHANGED <<apiKeySet, dbConfigured, source, preexisting, rejected, sink,
                pc, contactsToSync, i, created, failed, batchNum, batch,
                contactsToRetry, attempt, bcreated, elapsed, requests,
                successes, threwKeys, groups, checkLog, queries, fetched,
                runs, faults, sched, otherPending, codes, scan, basic>>

CheckpointAppend ==
    /\ \E keys \in SUBSET Keys :
         /\ checkpoint' = append(checkpoint, keys)
         /\ createdKeys' = createdKeys \cup keys
    /\ report' = [NoReport EXCEPT !.op = "append"]
    /\ existing' = {}
    /\ CheckpointFrame

CheckpointLoad ==
    /\ existing' = load(checkpoint)
    /\ report' = [NoReport EXCEPT !.op = "load"]
    /\ UNCHANGED <<checkpoint, createdKeys>>
    /\ CheckpointFrame

CheckpointClear ==
    /\ checkpoint' = NoCheckpoint
    /\ createdKeys' = {}
    /\ report' = [NoReport EXCEPT !.op = "clear"]
    /\ existing' = {}
    /\ CheckpointFrame

CheckpointExpire ==
    /\ checkpoint.count > 0 /\ ~checkpoint.expired
    /\ checkpoint' = [checkpoint EXCEPT !.expired = TRUE]
    /\ createdKeys' = {}
    /\ report' = [NoReport EXCEPT !.op = "expire"]
    /\ existing' = {}
    /\ CheckpointFrame

InitCheckpoint ==
    /\ Init
    /\ SinkUsable
    /\ Len(source) = 1
    /\ preexisting = {}
    /\ triggers = [h \in Handlers |-> 0]

NextCheckpoint ==
    \/ CheckpointAppend
    \/ CheckpointLoad
    \/ CheckpointClear
    \/ CheckpointExpire

CheckpointSpec == InitCheckpoint /\ [][NextCheckpoint]_vars

\* ------------------------------------------- one dispatch on its own
\* processBatch applied to a list of one to BATCH_SIZE records and to any
\* answers of the transport: the counts and the failed list it returns.
ClassifyFrame ==
    UNCHANGED <<apiKeySet, dbConfigured, source, preexisting, rejected,
                checkpoint, sink, pc, existing, contactsToSync, i, created,
                failed, batchNum, attempt, elapsed, requests, createdKeys,
                successes, groups, checkLog, queries, fetched, runs, faults,
                sched, otherPending, scan, basic>>

AnyStatuses == Statuses \cup {400, 404}

\* the list handed to processBatch and what the transport will answer:
\* a status for each request, and the records whose single fetch would throw
ClassifyTake ==
    /\ report.op = "none"
    /\ \E n \in 1 .. BATCH_SIZE :
         \E resp \in [1 .. n -> AnyStatuses], thrown \in SUBSET (1 .. n) :
            /\ batch' = [j \in 1 .. n |-> j]
            /\ codes' = resp
            /\ threwKeys' = thrown
    /\ report' = [NoReport EXCEPT !.op = "processBatch"]
    /\ UNCHANGED <<bcreated, contactsToRetry>>
    /\ ClassifyFrame

\* lines 499-508: fetchAll returns a response for every request
ClassifyParallel ==
    /\ report.op = "processBatch"
    /\ threwKeys = {}
    /\ bcreated' = Cardinality(CreatedIn(batch, codes, {}))
    /\ contactsToRetry' = FailedContacts(batch, codes, {})
    /\ report' = [NoReport EXCEPT !.op = "fetchAll"]
    /\ UNCHANGED <<batch, codes, threwKeys>>
    /\ ClassifyFrame

\* lines 510-540: fetchAll threw; each record is fetched alone and its
\* fetch returns a response or throws
ClassifySequential ==
    /\ report.op = "processBatch"
    /\ LET list == FallbackOrder(batch)
       IN  /\ bcreated' = Cardinality(CreatedIn(list, codes, threwKeys))
           /\ contactsToRetry' = FailedContacts(list, codes, threwKeys)
    /\ report' = [NoReport EXCEPT !.op = "fetch"]
    /\ UNCHANGED <<batch, codes, threwKeys>>
    /\ ClassifyFrame

InitClassify ==
    /\ Init
    /\ SinkUsable
    /\ Len(source) = 1
    /\ preexisting = {}
    /\ triggers = [h \in Handlers |-> 0]

NextClassify == ClassifyTake \/ ClassifyParallel \/ ClassifySequential

ClassifySpec == InitClassify /\ [][NextClassify]_vars

\* ------------------------------------------------ the sink scan by page
\* getExistingNotionContacts (lines 667-701) one request at a time, against
\* a database whose records Notion serves on pages shorter than page_size.
\* A record is given by its "Google Contact ID", 0 for a record without
\* one; a cursor is the number of the page it stands for, 0 for none.
ScanFrame ==
    UNCHANGED <<apiKeySet, dbConfigured, source, preexisting, rejected,
                checkpoint, codes, sink, pc, contactsToSync, i, created,
                failed, batchNum, batch, contactsToRetry, attempt, bcreated,
                elapsed, requests, createdKeys, successes, threwKeys, groups,
                checkLog, fetched, runs, faults, sched, otherPending, basic>>

ScanKeys == 0 .. 2

\* the records split into the pages Notion serves; an empty database is
\* served as one page without results
PagesOf(recs, len) ==
    IF recs = <<>> THEN <<(<<>>)>>
    ELSE [p \in 1 .. CeilDiv(Len(recs), len) |->
            Slice(recs, (p - 1) * len, p * len)]

\* the response to the request for a page: an error object (no results, no
\* has_more, no next_cursor) or the page, has_more and the next cursor
ScanResponse(pages, page, errorAt) ==
    IF page = errorAt
    THEN [results |-> <<>>, has_more |-> FALSE, next_cursor |-> 0]
    ELSE [results     |-> pages[page],
          has_more    |-> page < Len(pages),
          next_cursor |-> IF page < Len(pages) THEN page + 1 ELSE 0]

\* variant: the cursor is never sent
ScanPageAskedFirst(cursor) == 1

\* lines 674-675: start_cursor is sent when it is set; without it Notion
\* serves the first page
ScanPageAsked(cursor) == IF cursor = 0 THEN 1 ELSE cursor

\* lines 689-694: the keys of the results, a record without key left out
KeysOfResults(results) == {k \in Range(results) : k # 0}

\* the database and the answers of one scan
ScanTake ==
    /\ ~scan.taken
    /\ \E n \in 0 .. MaxScanRecords, len \in 1 .. MaxScanPage :
         \E recs \in [1 .. n -> ScanKeys] :
            LET pages == PagesOf(recs, len)
            IN  \E e \in 0 .. Len(pages) :
                   scan' = [NoScan EXCEPT !.taken = TRUE, !.pages = pages,
                                          !.errorAt = e]
    /\ existing' = {}
    /\ queries' = 0
    /\ report' = [NoReport EXCEPT !.op = "scan"]
    /\ ScanFrame

\* lines 672-697: one turn of the loop
ScanRequest ==
    /\ scan.taken
    /\ scan.hasMore
    /\ LET page == ScanPageAsked(scan.startCursor)
           data == ScanResponse(scan.pages, page, scan.errorAt)
       IN  /\ existing' = existing \cup KeysOfResults(data.results)
           /\ scan' = [scan EXCEPT !.hasMore = data.has_more,
                                   !.startCursor = data.next_cursor,
                                   !.asked = Append(@, page)]
    /\ queries' = queries + 1
    /\ UNCHANGED report
    /\ ScanFrame

InitScan ==
    /\ Init
    /\ SinkUsable
    /\ Len(source) = 1
    /\ preexisting = {}
    /\ triggers = [h \in Handlers |-> 0]

NextScan == ScanTake \/ ScanRequest

\* every request returns
ScanSpec == InitScan /\ [][NextScan]_vars /\ WF_vars(ScanRequest)

\* ------------------------------------------------- the basic script
\* syncContactsToNotion of the basic script (part_002, lines 23-69): one
\* record after the other, an update for a record found in the sink at the
\* start and a create for the others.
SeqFrame ==
    UNCHANGED <<apiKeySet, dbConfigured, source, preexisting, rejected,
                checkpoint, codes, scan, pc, contactsToSync, i, created,
                failed, batchNum, batch, contactsToRetry, attempt, bcreated,
                elapsed, requests, createdKeys, successes, threwKeys, groups,
                checkLog, fetched, runs, faults, sched, otherPending>>

\* how a request of the basic script ends: Notion answers with the page,
\* with an error object (createNotionContact and updateNotionContact then
\* throw, lines 164-166 and 195-197), or the fetch itself throws
SeqOutcomes == {"ok", "error", "threw"}

\* variant: every record is created
SeqKindCreate(contact, ex) == "create"

\* lines 46-56: if (existingContacts[googleContactId]) update, else create
SeqKind(contact, ex) == IF contact \in ex THEN "update" ELSE "create"

\* lines 23-42: the credential is there, the sink is queried (an error
\* response leaves the set empty), the source fetched, the counters zeroed
SeqStart ==
    /\ ~basic.taken
    /\ ~KeyMissing(apiKeySet)
    /\ \E errorAt \in {0, 1} :
         /\ existing' = getExistingNotionContacts(sink, errorAt)
         /\ queries' = QueryRequests(sink, errorAt)
    /\ basic' = [NoBasic EXCEPT !.taken = TRUE]
    /\ report' = [NoReport EXCEPT !.op = "basic"]
    /\ UNCHANGED sink
    /\ SeqFrame

\* lines 44-66: one turn of the loop, the catch block included
SeqStep ==
    /\ basic.taken
    /\ basic.idx < Len(source)
    /\ \E outcome \in SeqOutcomes :
         LET contact == source[basic.idx + 1]
             kind    == SeqKind(contact, existing)
             ok      == outcome = "ok"
         IN  /\ basic' = [basic EXCEPT
                          !.idx = @ + 1,
                          !.created = @ + (IF ok /\ kind = "create" THEN 1 ELSE 0),
                          !.updated = @ + (IF ok /\ kind = "update" THEN 1 ELSE 0),
                          !.skipped = @ + (IF ok THEN 0 ELSE 1),
                          !.log = Append(@, [kind |-> kind, contact |-> contact,
                                             outcome |-> outcome])]
             /\ sink' = IF ok /\ kind = "create"
                        THEN CreatePages(sink, [k \in {contact} |->
                                          buildNotionProperties(k).GoogleContactID])
                        ELSE sink
    /\ UNCHANGED <<existing, queries, report>>
    /\ SeqFrame

\* line 68: the summary
SeqEnd ==
    /\ basic.taken
    /\ basic.idx = Len(source)
    /\ report.outcome # "complete"
    /\ report' = [report EXCEPT !.outcome = "complete",
                                 !.created = basic.created,
                                 !.failed = basic.skipped,
                                 !.total = Len(source)]
    /\ UNCHANGED <<sink, existing, queries, basic>>
    /\ SeqFrame

InitSeq ==
    /\ Init
    /\ SinkUsable
    /\ rejected = {}
    /\ triggers = [h \in Handlers |-> 0]

NextSeq == SeqStart \/ SeqStep \/ SeqEnd

SequentialSpec == InitSeq /\ [][NextSeq]_vars

\* ================================================================ claims
RECURSIVE SumOver(_, _)
SumOver(f, S) ==
    IF S = {} THEN 0
    ELSE LET k == CHOOSE x \in S : TRUE IN f[k] + SumOver(f, S \ {k})

TotalRequests == SumOver(requests, Keys)

RECURSIVE Flatten(_)
Flatten(ss) == IF ss = <<>> THEN <<>> ELSE Head(ss) \o Flatten(Tail(ss))

\* the records of the windows dispatched so far in this run
Dispatched == Range(Flatten(groups))

\* a run of syncContactsToNotion has just ended with the given outcome
\* (its locals and logs are still those of that run)
RunEnded(outcome) ==
    pc = "idle" /\ report.op = "sync" /\ report.outcome = outcome

\* every create request of this run was answered 200
AllCreatesSucceeded == failed = 0 /\ TotalRequests = successes

\* the sink as it was when the current run started
SinkAtStart == [k \in Keys |-> sink[k] - (IF k \in createdKeys THEN 1 ELSE 0)]

\* C1: no create request is issued in a run for a record whose resourceName
\* is in the synced set the run resolved at its start; a run that follows a
\* timed-out run therefore does not re-submit the records it finds created.
NoRecreateAfterSuccess == \A k \in existing : requests[k] = 0

NoRecreateWitness ==
    /\ pc # "idle"
    /\ report.op = "sync" /\ report.outcome = "timeout"
    /\ \E k \in existing : k \notin preexisting /\ sink[k] = 1
    /\ \E k \in Keys : requests[k] > 0

\* C2: from an empty sink, once checkSyncStatus reports remaining = 0 the
\* sink holds exactly |S| records, one per identity of S.
ConvergenceExact ==
    (preexisting = {} /\ pc = "idle" /\ report.op = "status"
        /\ report.outcome = "reported" /\ report.remaining = 0)
    => /\ Len(SinkRecords(sink)) = Len(source)
       /\ \A k \in Range(source) : sink[k] = 1

\* C3: no two sink records carry the same Google Contact ID.
NoDuplicateIds == \A k \in Keys : sink[k] <= 1

\* C4: a complete run in which every create succeeded at once issued N
\* create requests in ceil(N / BATCH_SIZE) groups of at most BATCH_SIZE
\* records, every pending record in exactly one group.
BatchPartition ==
    (RunEnded("complete") /\ AllCreatesSucceeded)
    => LET N == Len(contactsToSync)
       IN  /\ TotalRequests = N
           /\ Len(groups) = CeilDiv(N, BATCH_SIZE)
           /\ \A g \in 1 .. Len(groups) : Len(groups[g]) <= BATCH_SIZE
           /\ \A j \in 1 .. N :
                Cardinality({<<g, m>> \in (1 .. Len(groups)) \X (1 .. BATCH_SIZE + 1) :
                               m <= Len(groups[g])
                               /\ groups[g][m] = contactsToSync[j]}) = 1

BatchPartitionWitness ==
    /\ RunEnded("complete") /\ AllCreatesSucceeded
    /\ Len(groups) = 2
    /\ Len(contactsToSync) > BATCH_SIZE

\* C5: a record answered with a non-success status on every attempt is
\* submitted exactly MAX_RETRIES times in the run, never more, and is then
\* counted as failed.
RetryBounded ==
    /\ \A k \in Keys : k \notin threwKeys => requests[k] <= MAX_RETRIES
    /\ pc = "windowEnd" =>
         \A k \in Range(contactsToRetry) :
            k \notin threwKeys => requests[k] = MAX_RETRIES
    /\ pc = "loop" => failed = Cardinality(Dispatched \ createdKeys)

RetryBoundedWitness ==
    /\ pc = "loop" /\ SinkUsable
    /\ failed = 1
    /\ \E k \in Dispatched \ createdKeys :
         k \notin threwKeys /\ requests[k] = MAX_RETRIES

\* C6: every batch window is preceded by a budget check that found the
\* budget not exceeded; a check that finds it exceeded ends the run at once,
\* no window is dispatched after it and the counts reported are the counts
\* accumulated so far.
BudgetCheck ==
    /\ \A j \in 1 .. Len(groups) :
         j <= Len(checkLog) /\ checkLog[j] <= MAX_EXECUTION_TIME_MS
    /\ \A j \in 1 .. Len(checkLog) :
         checkLog[j] > MAX_EXECUTION_TIME_MS
         => /\ j = Len(checkLog)
            /\ Len(groups) = j - 1
            /\ RunEnded("timeout")
            /\ report.created = created /\ report.failed = failed
            /\ report.remaining = Len(contactsToSync) - Len(Flatten(groups))
    /\ (pc # "idle" \/ RunEnded("complete")) => Len(checkLog) = Len(groups)

BudgetCheckWitness ==
    /\ RunEnded("timeout")
    /\ Len(groups) = 1
    /\ report.created > 0
    /\ report.remaining > 0

\* C7: a complete run in which every create succeeded, started on a sink
\* holding the identities E of the source, created and reports
\* |source| - |E| records and no failure, and a checkSyncStatus that follows
\* it reports remaining = 0.
FullSuccessRun ==
    [][(RunEnded("complete") /\ AllCreatesSucceeded)
       => LET E == {k \in Range(source) : SinkAtStart[k] > 0}
              n == Len(source) - Cardinality(E)
          IN  /\ Cardinality(createdKeys) = n
              /\ report.created = n
              /\ report.failed = 0
              /\ (report'.op = "status" /\ report'.outcome = "reported")
                 => report'.remaining = 0]_vars

\* C8: when processBatchWithRetry returns, created is the number of records
\* of the batch the sink created, and the records left as failed are exactly
\* the other records of the batch.
PartialFailureBatch ==
    pc = "windowEnd" =>
        /\ bcreated = Cardinality(Range(batch) \cap createdKeys)
        /\ Range(contactsToRetry) = Range(batch) \ createdKeys
        /\ bcreated = Len(batch) - Len(contactsToRetry)

PartialFailureWitness ==
    /\ pc = "windowEnd" /\ SinkUsable
    /\ Len(batch) = BATCH_SIZE
    /\ bcreated = BATCH_SIZE - 1
    /\ contactsToRetry = <<batch[3]>>
    /\ requests[batch[3]] = MAX_RETRIES
    /\ threwKeys = {}

\* C9: without NOTION_API_KEY a run raises before any sink query, source
\* fetch or create request, and does nothing more.
MissingKeyFatal ==
    ~apiKeySet =>
        /\ pc = "idle"
        /\ \A k \in Keys : sink[k] = (IF k \in preexisting THEN 1 ELSE 0)
        /\ report.op = "sync" =>
             /\ report.outcome = "raised"
             /\ queries = 0
             /\ ~fetched
             /\ TotalRequests = 0

MissingKeyWitness == ~apiKeySet /\ RunEnded("raised") /\ runs > 1

\* C10: with an unusable database id a run raises and issues no create
\* request.
MissingDatabaseFatal ==
    ~dbConfigured =>
        /\ pc = "idle"
        /\ TotalRequests = 0
        /\ report.op = "sync" => report.outcome = "raised"

Fired == pc = "idle" /\ caller' = "continue" /\ otherPending' = otherPending

\* C12: the catch-up trigger is removed only by stopContinuousSync called by
\* the operator, or by a scheduled invocation whose live sink query and live
\* source fetch found every source resourceName in the sink; a scheduled
\* invocation that finds a source record missing leaves the trigger
\* installed and calls the sync.
RemovalOnlyAtZeroBacklog ==
    [][/\ triggers'[CatchUp] < triggers[CatchUp]
          => \/ caller' = "manual" /\ report'.op = "stop"
             \/ /\ Fired
                /\ report'.op = "continue" /\ report'.outcome = "stopped"
                /\ queries' > 0 /\ fetched'
                /\ Range(source) \subseteq existing'
                /\ existing' \subseteq {k \in Keys : sink[k] > 0}
       /\ (Fired /\ \E k \in Range(source) : sink[k] = 0)
          => /\ triggers' = triggers
             /\ pc' = "loop" \/ report'.outcome = "caught"]_vars

RemovalWitness ==
    /\ pc = "idle" /\ caller = "continue"
    /\ report.op = "continue" /\ report.outcome = "stopped"
    /\ triggers[CatchUp] = 0
    /\ Len(source) > BATCH_SIZE
    /\ \A k \in Range(source) : sink[k] = 1
    /\ preexisting = {}

\* a scheduled invocation has just found nothing left and stopped
StoppedAtZero ==
    /\ pc = "idle" /\ caller = "continue"
    /\ report.op = "continue" /\ report.outcome = "stopped"

AutoModeStops ==
    /\ (SinkUsable /\ rejected = {} /\ triggers[CatchUp] > 0)
          ~> (StoppedAtZero /\ triggers[CatchUp] = 0)
    /\ [][(runs > 0 /\ pc = "idle" /\ triggers[CatchUp] = 0)
           => TotalRequests' = 0]_vars

AutoModeWitness ==
    /\ StoppedAtZero /\ triggers[CatchUp] = 0
    /\ SinkUsable /\ rejected = {}
    /\ faults > 0
    /\ Len(source) > BATCH_SIZE
    /\ \A k \in Range(source) : sink[k] > 0

\* C15: the page a create request makes for a contact is in the sink under
\* that contact's resourceName from the step that creates it, and no step
\* changes or removes the key of a record the sink holds.
IdentityWrittenAtCreate ==
    [][\A k \in Keys :
          sink'[k] = sink[k]
                     + (IF k \in createdKeys' /\ k \notin createdKeys
                        THEN 1 ELSE 0)
                     + (IF /\ otherPending' # otherPending
                           /\ k \in Range(WindowOf(otherPending, 0))
                           /\ SinkUsable /\ k \notin rejected
                        THEN 1 ELSE 0)]_vars

IdentityWitness ==
    /\ pc = "loop" /\ SinkUsable
    /\ \E k \in createdKeys :
         requests[k] > 1 /\ sink[k] = 1 /\ k \notin preexisting /\ k > 1

\* C16: two runs are never in progress together: at most one run is
\* between its sink query and its last create request.
SingleFlight == ~(pc # "idle" /\ otherPending # <<>>)

\* the identities the sink holds
SinkKeys == {k \in Keys : sink[k] > 0}

\* C17: checkSyncStatus reports as remaining the number of source records
\* whose resourceName is not in the sink, whatever the sink holds; it
\* reports 0 exactly when no source record is missing.
StatusCountsBacklog ==
    (pc = "idle" /\ report.op = "status" /\ report.outcome = "reported")
    => report.remaining = Len(PendingOf(source, SinkKeys))

\* C18: what load() returns is exactly the set of the keys appended to the
\* checkpoint, also when they fill more than one page.
CheckpointRoundTrip == report.op = "load" => existing = createdKeys

CheckpointRoundTripWitness ==
    /\ report.op = "load"
    /\ checkpoint.count = 2 * CHECKPOINT_PAGE_SIZE + 1
    /\ Len(checkpoint.pages) = 3
    /\ Cardinality(existing) = 2 * CHECKPOINT_PAGE_SIZE + 1

\* a run is in progress that follows a timed-out run which created records:
\* the case in which a checkpoint of that run would be valid and not empty
Resumed ==
    /\ pc # "idle"
    /\ report.op = "sync" /\ report.outcome = "timeout"
    /\ \E k \in existing : k \notin preexisting

RetryOnlyFailed ==
    [][/\ (pc = "attempt" /\ attempt' = attempt + 1)
          => LET submitted == {k \in Keys : requests'[k] > requests[k]}
             IN  IF attempt = 1
                 THEN submitted = Range(batch)
                 ELSE submitted = Range(batch) \ createdKeys
       /\ \A k \in createdKeys :
            requests'[k] = requests[k] \/ createdKeys' = {}]_vars

RetryOnlyFailedWitness ==
    /\ pc = "windowEnd" /\ attempt = 3
    /\ threwKeys = {}
    /\ Len(batch) = BATCH_SIZE
    /\ \E k \in createdKeys : requests[k] = 2
    /\ \E k \in createdKeys : requests[k] = 1

\* the last dispatch fell back: a record went to fetchAll and then alone
FellBack == \E k \in Range(contactsToRetry) : requests'[k] = requests[k] + 2

\* C21: when fetchAll throws, the run goes on inside the same window; every
\* record of the dispatch is then submitted alone, once; the failed list is
\* made of the records not created, in the order of the dispatch, a record
\* whose own fetch threw among them, and the others are created or failed by
\* their response.
SequentialFallback ==
    [][(pc = "attempt" /\ attempt' = attempt + 1 /\ FellBack)
       => /\ pc' \in {"attempt", "windowEnd"}
          /\ report' = report
          /\ batch' = batch
          /\ \A k \in Keys :
               requests'[k] = requests[k]
                              + (IF k \in Range(contactsToRetry) THEN 2 ELSE 0)
          /\ contactsToRetry'
               = SelectSeq(contactsToRetry, LAMBDA k : k \notin createdKeys')
          /\ bcreated' = bcreated
                          + Cardinality(Range(contactsToRetry) \cap createdKeys')
          /\ Range(contactsToRetry) \subseteq threwKeys']_vars

\* the fallback of the first window lost its first record to an exception
\* and created the others; the second window went through fetchAll
SequentialFallbackWitness ==
    /\ pc = "windowEnd" /\ SinkUsable /\ rejected = {}
    /\ Len(groups) = 2
    /\ faults = 1
    /\ Range(groups[1]) \subseteq threwKeys
    /\ requests[groups[1][1]] = 3
    /\ \A j \in 2 .. BATCH_SIZE : requests[groups[1][j]] = 2
    /\ Range(groups[1]) \subseteq createdKeys
    /\ \A k \in Range(groups[2]) : requests[k] = 1 /\ k \notin threwKeys

\* C22: a source record the sink does not hold is in the pending list of
\* every run in progress, and a run that went through all its windows has
\* submitted it MAX_RETRIES times (not more, unless a dispatch fell back); a
\* record the sink never accepts is never in the sink, keeps the backlog
\* above zero and keeps the catch-up trigger from being removed.
FailedDeferred ==
    /\ pc # "idle" =>
         \A k \in Range(source) : sink[k] = 0 => k \in Range(contactsToSync)
    /\ RunEnded("complete") =>
         \A k \in Range(source) :
            sink[k] = 0 => /\ requests[k] >= MAX_RETRIES
                           /\ k \notin threwKeys => requests[k] = MAX_RETRIES
    /\ \A k \in rejected :
         /\ sink[k] = 0
         /\ Len(PendingOf(source, SinkKeys)) > 0
         /\ ~StoppedAtZero

\* the second of two runs: the first left the record the sink refuses, the
\* second finds it alone in its pending list and submits it three times
FailedDeferredWitness ==
    /\ pc = "windowEnd" /\ SinkUsable
    /\ report.op = "sync" /\ report.outcome = "complete"
    /\ rejected = Malformed
    /\ contactsToSync = <<3>>
    /\ requests[3] = MAX_RETRIES
    /\ contactsToRetry = <<3>>
    /\ Len(source) = MaxContacts

\* C23: of the records of one dispatch, those counted as created are
\* exactly the ones whose request was answered 200; every other one (any
\* other status, 429 among them, or an exception) is once in the failed
\* list; no record is in neither or in both.
ResponseClassified ==
    report.op \in {"fetchAll", "fetch"} =>
       LET ok == {k \in Range(batch) : k \notin threwKeys /\ codes[k] = 200}
       IN  /\ bcreated = Cardinality(ok)
           /\ Range(contactsToRetry) = Range(batch) \ ok
           /\ Len(contactsToRetry) = Cardinality(Range(batch) \ ok)
           /\ bcreated + Len(contactsToRetry) = Len(batch)

\* a fallback dispatch of five: 200, 429, 500, one that throws, 200
ResponseClassifiedWitness ==
    /\ report.op = "fetch"
    /\ Len(batch) = BATCH_SIZE
    /\ codes = <<200, 429, 500, 200, 200>>
    /\ threwKeys = {4}
    /\ bcreated = 2
    /\ contactsToRetry = <<2, 3, 4>>

\* a record of this run is settled: created, or failed on its last attempt
Settled(k) == k \in createdKeys \/ requests[k] >= MAX_RETRIES

\* C24: fetchAll returns when all its requests are answered, so the requests
\* outstanding at any moment are those of the dispatch in progress: at most
\* BATCH_SIZE, all of the current window.  When a window is dispatched every
\* record of the windows before it is settled, retries included, and no
\* request has been issued for a record of a window not yet dispatched.
GroupsSequential ==
    /\ Len(batch) <= BATCH_SIZE
    /\ Len(contactsToRetry) <= BATCH_SIZE
    /\ Range(contactsToRetry) \subseteq Range(batch)
    /\ \A k \in Keys : requests[k] > 0 => k \in Dispatched
    /\ \A g \in 1 .. Len(groups) - 1 : \A k \in Range(groups[g]) : Settled(k)
    /\ \A g \in 1 .. Len(groups) : \A h \in 1 .. Len(groups) :
         g # h => Range(groups[g]) \cap Range(groups[h]) = {}
    /\ pc \in {"attempt", "windowEnd"} => batch = groups[Len(groups)]

\* the second window is about to be dispatched for the first time; a record
\* of the first failed three times, the others were created
GroupsSequentialWitness ==
    /\ pc = "attempt" /\ attempt = 1 /\ SinkUsable
    /\ Len(groups) = 2
    /\ \A k \in Range(groups[2]) : requests[k] = 0
    /\ \E k \in Range(groups[1]) :
         k \notin createdKeys /\ requests[k] = MAX_RETRIES
    /\ \E k \in Range(groups[1]) : k \in createdKeys

\* C25: the budget is read only by the check that precedes a window.  From
\* the dispatch of a window to its end no check is made, whatever the clock
\* says: a dispatch stays due while records are left and attempts remain,
\* and at the end of the window every record of it has been submitted and is
\* created or has been through MAX_RETRIES attempts.  A run the budget check
\* stopped has therefore no window half done.
CancelAtWindowBoundary ==
    /\ pc \in {"attempt", "windowEnd"} => Len(checkLog) = Len(groups)
    /\ pc = "attempt" => RetryContinues(attempt, contactsToRetry)
    /\ pc = "windowEnd" =>
         \A k \in Range(batch) : requests[k] >= 1 /\ Settled(k)
    /\ RunEnded("timeout") =>
         /\ \A k \in Dispatched : requests[k] >= 1 /\ Settled(k)
         /\ i = BATCH_SIZE * Len(groups)

\* in the middle of a window the budget is exceeded, two attempts are done
\* and the third is due
CancelAtWindowBoundaryWitness ==
    /\ pc = "attempt" /\ attempt = MAX_RETRIES
    /\ BudgetExceeded(elapsed)
    /\ checkLog[Len(checkLog)] <= MAX_EXECUTION_TIME_MS
    /\ Len(contactsToSync) > BATCH_SIZE
    /\ Len(groups) = 1
    /\ SinkUsable

\* position of a record in the source enumeration
PosIn(src, k) == CHOOSE j \in 1 .. Len(src) : src[j] = k

\* C26: the pending list of a run holds, once each and in the order of the
\* source, the source records that are not in the synced set the run
\* resolved; the g-th window dispatched holds the records at pending
\* indices (g - 1) * BATCH_SIZE and up, in that order, and its first
\* attempt submits exactly them.  Pending list and windows are thus fixed
\* by the source enumeration and the synced set.
PendingOrder ==
    LET N == Len(contactsToSync)
    IN  /\ pc # "idle" =>
             /\ Range(contactsToSync) = Range(source) \ existing
             /\ \A a \in 1 .. N : \A b \in 1 .. N :
                  a < b => PosIn(source, contactsToSync[a])
                             < PosIn(source, contactsToSync[b])
        /\ \A g \in 1 .. Len(groups) :
             /\ Len(groups[g]) = Min(BATCH_SIZE, N - (g - 1) * BATCH_SIZE)
             /\ \A m \in 1 .. Len(groups[g]) :
                  groups[g][m] = contactsToSync[(g - 1) * BATCH_SIZE + m]
        /\ (pc = "attempt" /\ attempt = 1) =>
             contactsToRetry = groups[Len(groups)]

\* a run that follows a timed-out run: the record the first window failed
\* and the record of the window never dispatched, in source order
PendingOrderWitness ==
    /\ pc = "windowEnd" /\ SinkUsable
    /\ report.op = "sync" /\ report.outcome = "timeout"
    /\ existing = {1, 2, 4, 5}
    /\ contactsToSync = <<3, 6>>
    /\ groups = <<(<<3, 6>>)>>
    /\ requests[6] = 1

\* C27: when every step of a run completes, a run in progress comes to its
\* end; it dispatches at most ceil(N / BATCH_SIZE) windows, each with at
\* most MAX_RETRIES attempts, whatever the clock and the responses.
RunTerminates ==
    /\ (pc # "idle") ~> (pc = "idle")
    /\ [](/\ Len(groups) <= CeilDiv(Len(contactsToSync), BATCH_SIZE)
          /\ batchNum = Len(groups)
          /\ i <= BATCH_SIZE * Len(groups)
          /\ attempt <= MAX_RETRIES + 1
          /\ pc = "attempt" => attempt <= MAX_RETRIES)

\* a run that went through both its windows, with a record failed on every
\* attempt and the budget passed during the last window
RunTerminatesWitness ==
    /\ RunEnded("complete") /\ SinkUsable
    /\ Len(contactsToSync) = MaxContacts
    /\ Len(groups) = CeilDiv(MaxContacts, BATCH_SIZE)
    /\ failed = 1
    /\ BudgetExceeded(elapsed)

SinkNeverShrinks ==
    [][\A k \in Keys : sink'[k] >= sink[k]]_vars

\* a run that follows a timed-out run: the sink still holds what the first
\* run created and now also what the second created
SinkNeverShrinksWitness ==
    /\ pc = "windowEnd" /\ SinkUsable
    /\ report.op = "sync" /\ report.outcome = "timeout"
    /\ preexisting = {}
    /\ existing = 1 .. BATCH_SIZE
    /\ createdKeys = {MaxContacts}
    /\ \A k \in Range(source) : sink[k] = 1

\* a step that is a call of stopContinuousSync by the operator
Stops ==
    /\ pc = "idle" /\ pc' = "idle"
    /\ caller' = "manual" /\ report'.op = "stop"
    /\ otherPending' = otherPending

\* C30: a call of stopContinuousSync leaves no trigger of
\* continueSyncIfNeeded and leaves the triggers of every other handler, the
\* sink and the configuration as they were; when there was no trigger of
\* continueSyncIfNeeded it changes no trigger at all.
StopRemovesOnlyCatchUp ==
    [][Stops
       => /\ triggers'[CatchUp] = 0
          /\ \A h \in Handlers \ {CatchUp} : triggers'[h] = triggers[h]
          /\ report'.removed = triggers[CatchUp]
          /\ triggers[CatchUp] = 0 => triggers' = triggers
          /\ sink' = sink
          /\ config' = config]_vars

\* the operator has stopped automatic mode: the catch-up trigger was
\* removed, the daily trigger is still installed
StopRemovesOnlyCatchUpWitness ==
    /\ pc = "idle" /\ caller = "manual"
    /\ report.op = "stop" /\ report.removed = 1
    /\ triggers[CatchUp] = 0
    /\ triggers[Daily] = 1

\* C31: whatever the operator calls and whenever the host fires the
\* trigger, there is never more than one trigger of continueSyncIfNeeded.
OneCatchUpTrigger == triggers[CatchUp] <= 1

\* startContinuousSync called twice: the first call ended in its catch
\* block, the run of the second is in progress, one trigger is installed
OneCatchUpTriggerWitness ==
    /\ pc = "loop" /\ caller = "start"
    /\ report.op = "start" /\ report.outcome = "caught"
    /\ runs = 2
    /\ triggers[CatchUp] = 1

CountConservation ==
    LET N == Len(contactsToSync)
    IN  /\ pc = "loop" =>
             /\ created + failed = Min(i, N)
             /\ created + failed = Len(Flatten(groups))
             /\ created = Cardinality(Dispatched \cap createdKeys)
             /\ failed = Cardinality(Dispatched \ createdKeys)
        /\ RunEnded("timeout") =>
             /\ report.created + report.failed + report.remaining = N
             /\ report.remaining > 0
        /\ RunEnded("complete") => report.created + report.failed = N

\* the budget check stopped a run of six pending records after its first
\* window: four created, one failed, one remaining
CountConservationWitness ==
    /\ RunEnded("timeout") /\ SinkUsable
    /\ Len(contactsToSync) = MaxContacts
    /\ report.created = BATCH_SIZE - 1
    /\ report.failed = 1
    /\ report.remaining = MaxContacts - BATCH_SIZE

\* the keys on the pages a scan has read (the page answered with an error
\* has none)
KeysRead ==
    UNION {KeysOfResults(scan.pages[scan.asked[j]]) :
             j \in {x \in 1 .. Len(scan.asked) : scan.asked[x] # scan.errorAt}}

\* C34: the scan asks for the pages in their order, the first without
\* cursor and each later one with the cursor of the response before it, no
\* page twice; it holds the key of every record with a key on the pages
\* read; it stops at the first response without has_more = true, that is
\* at the last page or at an error response; and it comes to its end.
SinkFullScan ==
    /\ [](scan.taken =>
            /\ \A j \in 1 .. Len(scan.asked) : scan.asked[j] = j
            /\ queries = Len(scan.asked)
            /\ existing = KeysRead
            /\ scan.hasMore =>
                 /\ Len(scan.asked) < Len(scan.pages)
                 /\ scan.errorAt \notin 1 .. Len(scan.asked)
                 /\ Len(scan.asked) > 0 => scan.startCursor = Len(scan.asked) + 1
            /\ ~scan.hasMore =>
                 Len(scan.asked) = (IF scan.errorAt # 0 THEN scan.errorAt
                                    ELSE Len(scan.pages))
            /\ (~scan.hasMore /\ Len(scan.pages) = 1
                  /\ 0 \notin Range(scan.pages[1])) =>
                 existing = QueryPages(scan.pages[1], 1, scan.errorAt, {}))
    /\ scan.taken ~> ~scan.hasMore

\* a scan over three pages has ended: three requests, the keys of the
\* records that have one
SinkFullScanWitness ==
    /\ scan.taken /\ ~scan.hasMore
    /\ scan.errorAt = 0
    /\ scan.pages = <<(<<1>>), (<<0>>), (<<2>>)>>
    /\ scan.asked = <<1, 2, 3>>
    /\ existing = {1, 2}

\* the requests of the basic script's run of the given kind and success
SeqCount(kind, ok) ==
    Cardinality({j \in 1 .. Len(basic.log) :
                   /\ basic.log[j].kind = kind
                   /\ (basic.log[j].outcome = "ok") = ok})

\* C35: in a run of the basic script the j-th request is for the j-th
\* source record, one request per record: an update if its resourceName is
\* in the set resolved at the start, a create if not.  A request that fails
\* is counted as skipped and the next record follows.  created, updated and
\* skipped count the requests by kind and success; their sum is the number
\* of records processed, at the end the number of source records.
SequentialVariant ==
    basic.taken =>
       /\ Len(basic.log) = basic.idx
       /\ \A j \in 1 .. Len(basic.log) :
            /\ basic.log[j].contact = source[j]
            /\ basic.log[j].kind = "update" <=> source[j] \in existing
            /\ basic.log[j].kind = "create" <=> source[j] \notin existing
       /\ basic.created = SeqCount("create", TRUE)
       /\ basic.updated = SeqCount("update", TRUE)
       /\ basic.skipped = SeqCount("create", FALSE) + SeqCount("update", FALSE)
       /\ basic.created + basic.updated + basic.skipped = basic.idx
       /\ report.outcome = "complete" =>
            /\ basic.idx = Len(source)
            /\ basic.created + basic.updated + basic.skipped = Len(source)

\* a run over three records has ended: the first updated, the second
\* skipped after an error, the third created
SequentialVariantWitness ==
    /\ basic.taken /\ report.outcome = "complete"
    /\ Len(source) = 3
    /\ existing = {1}
    /\ basic.log[1].kind = "update" /\ basic.log[1].outcome = "ok"
    /\ basic.log[2].kind = "create" /\ basic.log[2].outcome = "threw"
    /\ basic.log[3].kind = "create" /\ basic.log[3].outcome = "ok"
    /\ basic.created = 1 /\ basic.updated = 1 /\ basic.skipped = 1
    /\ sink[3] = 1 /\ sink[2] = 0

====
